---- MODULE Spec2Model ----
(***************************************************************************)
(* The workflow .github/workflows/dc_sync.yml ("Sync tutorial with dC      *)
(* workspace") as a state machine: pushes, the get-tutorials job           *)
(* (change detection and matrix creation), the two matrix jobs "modified"  *)
(* and "deleted" with one unit per file, and the requests the units issue  *)
(* to the external store.                                                  *)
(*                                                                         *)
(* Spec is the workflow over a history of pushes to a repository that      *)
(* starts empty, runs of different pushes overlapping; SpecRun is one push *)
(* and its run on any tree of main; SpecSeq is Spec with every push made   *)
(* after the runs before it are complete.  SpecNames applies the file name *)
(* derivations of the units to paths drawn from a bounded set.  SpecSplit  *)
(* is the sliding window split of tutorial 8 (Preprocessing) on a text of  *)
(* a bounded number of words.                                              *)
(*                                                                         *)
(* Strings the workflow computes with (paths, file names) are sequences of *)
(* one-character strings, so that glob matching, basename and the          *)
(* extension swap are computed, not assumed.                               *)
(***************************************************************************)
EXTENDS Naturals, Sequences, FiniteSets, TLC

(***************************************************************************)
(* Bounds of the model.                                                    *)
(***************************************************************************)
\* pushes in one behaviour
MaxPushes == 2
\* entries (added, modified, deleted or renamed files) in the diff of one push
MaxTouched == 2

(***************************************************************************)
(* Files of the repository.  The first three match tutorials/[0-9]*.ipynb  *)
(* (one of them has a space in its name), the last one does not.  File     *)
(* names are made of letters, digits, "_", ".", "/" and the space.         *)
(***************************************************************************)
NBSP == <<"t","u","t","o","r","i","a","l","s","/","0","5"," ","D","r","a","f","t",".","i","p","y","n","b">>
NB07 == <<"t","u","t","o","r","i","a","l","s","/","0","7","_","R","A","G","_","G","e","n","e","r","a","t","o","r",".","i","p","y","n","b">>
NB22 == <<"t","u","t","o","r","i","a","l","s","/","2","2","_","P","i","p","e","l","i","n","e","_","w","i","t","h","_","P","r","o","m","p","t","N","o","d","e",".","i","p","y","n","b">>
UTILS == <<"t","u","t","o","r","i","a","l","s","/","u","t","i","l","s",".","i","p","y","n","b">>

\* the files in the order git lists them (bytewise by path)
AllPaths == <<NBSP, NB07, NB22, UTILS>>
PathIds == 1..Len(AllPaths)
PathId(path) == CHOOSE i \in PathIds : AllPaths[i] = path

(***************************************************************************)
(* String helpers.                                                         *)
(***************************************************************************)
Digits == {"0","1","2","3","4","5","6","7","8","9"}

\* on.push.paths: tutorials/[0-9]*.ipynb
PushPathsPattern == <<"t","u","t","o","r","i","a","l","s","/","[0-9]","*",".","i","p","y","n","b">>
\* changed-files "files" input: ./tutorials/[0-9]*.ipynb
FilesPattern == <<".","/">> \o PushPathsPattern

IpynbSuffix == <<".","i","p","y","n","b">>
TxtSuffix == <<".","t","x","t">>
TextDir == <<"t","e","x","t","/">>
TutorialsDir == <<"t","u","t","o","r","i","a","l","s","/">>

\* a glob pattern relative to the repository root: a leading ./ is dropped
NormalisePattern(pat) ==
    IF Len(pat) >= 2 /\ pat[1] = "." /\ pat[2] = "/"
    THEN SubSeq(pat, 3, Len(pat)) ELSE pat

\* GlobMatch with * taken for any run of characters, / included, as if the
\* patterns were tutorials/[0-9]**.ipynb
RECURSIVE GlobMatchAcrossDirectories(_, _)
GlobMatchAcrossDirectories(pat, s) ==
    IF pat = <<>> THEN s = <<>>
    ELSE IF Head(pat) = "*"
         THEN \/ GlobMatchAcrossDirectories(Tail(pat), s)
              \/ (s # <<>> /\ GlobMatchAcrossDirectories(pat, Tail(s)))
    ELSE IF Head(pat) = "[0-9]"
         THEN s # <<>> /\ Head(s) \in Digits
                       /\ GlobMatchAcrossDirectories(Tail(pat), Tail(s))
    ELSE s # <<>> /\ Head(s) = Head(pat)
                  /\ GlobMatchAcrossDirectories(Tail(pat), Tail(s))

\* GlobMatch with the class [0-9] taken for any one character of a name, as
\* if the patterns were tutorials/?*.ipynb
RECURSIVE GlobMatchAnyCharacter(_, _)
GlobMatchAnyCharacter(pat, s) ==
    IF pat = <<>> THEN s = <<>>
    ELSE IF Head(pat) = "*"
         THEN \/ GlobMatchAnyCharacter(Tail(pat), s)
              \/ (s # <<>> /\ Head(s) # "/" /\ GlobMatchAnyCharacter(pat, Tail(s)))
    ELSE IF Head(pat) = "[0-9]"
         THEN s # <<>> /\ Head(s) # "/" /\ GlobMatchAnyCharacter(Tail(pat), Tail(s))
    ELSE s # <<>> /\ Head(s) = Head(pat) /\ GlobMatchAnyCharacter(Tail(pat), Tail(s))

\* glob matching: * is any run of characters other than /, [0-9] one digit
RECURSIVE GlobMatch(_, _)
GlobMatch(pat, s) ==
    IF pat = <<>> THEN s = <<>>
    ELSE IF Head(pat) = "*"
         THEN \/ GlobMatch(Tail(pat), s)
              \/ (s # <<>> /\ Head(s) # "/" /\ GlobMatch(pat, Tail(s)))
    ELSE IF Head(pat) = "[0-9]"
         THEN s # <<>> /\ Head(s) \in Digits /\ GlobMatch(Tail(pat), Tail(s))
    ELSE s # <<>> /\ Head(s) = Head(pat) /\ GlobMatch(Tail(pat), Tail(s))

EndsWith(s, suffix) ==
    /\ Len(s) >= Len(suffix)
    /\ SubSeq(s, Len(s) - Len(suffix) + 1, Len(s)) = suffix

\* the part of a path after its last /
RECURSIVE LastComponent(_)
LastComponent(s) ==
    IF \E i \in 1..Len(s) : s[i] = "/"
    THEN LastComponent(SubSeq(s, (CHOOSE i \in 1..Len(s) : s[i] = "/") + 1, Len(s)))
    ELSE s

\* basename NAME SUFFIX: the directory removed, then a trailing SUFFIX
\* removed unless it is the whole name
Basename(name, suffix) ==
    LET base == LastComponent(name)
    IN  IF base # suffix /\ EndsWith(base, suffix)
        THEN SubSeq(base, 1, Len(base) - Len(suffix))
        ELSE base

\* the words the shell splits an unquoted string into (at spaces)
RECURSIVE ShellWords(_)
ShellWords(s) ==
    IF s = <<>> THEN <<>>
    ELSE IF Head(s) = " " THEN ShellWords(Tail(s))
    ELSE LET n == IF \E i \in 1..Len(s) : s[i] = " "
                  THEN (CHOOSE i \in 1..Len(s) :
                            s[i] = " " /\ \A j \in 1..(i-1) : s[j] # " ") - 1
                  ELSE Len(s)
         IN  <<SubSeq(s, 1, n)>> \o ShellWords(SubSeq(s, n + 1, Len(s)))

\* $(basename ${{ matrix.file }} .ipynb): the path is substituted unquoted
\* into the script; basename takes one name and one suffix and fails with
\* "extra operand" on more
BasenameCommand(file) ==
    LET args == ShellWords(file) \o <<IpynbSuffix>>
    IN  IF Len(args) = 2
        THEN [ok |-> TRUE, out |-> Basename(args[1], args[2])]
        ELSE [ok |-> FALSE, out |-> <<>>]


(***************************************************************************)
(* State.                                                                  *)
(***************************************************************************)
VARIABLES
    initial,   \* the tree of main before the first push, PathIds -> content
               \* (0: the file is absent; 1: the file as it was before the
               \* first push; k + 1: the file as written by push k)
    commits,   \* commits[k]: the tree of main after push k (to any branch)
    runs,      \* runs[k]: the workflow run of push k
    store,     \* the external store: file key -> the copies it holds under that
               \* key, each the metadata of an upload
    keying,    \* how the external store keys an uploaded file (not decided
               \* by this repository): by its file name or by the path given
    probe,     \* SpecNames: a path and the file names derived from it
    split      \* SpecSplit: the words of a text and the documents split off

vars == <<probe, split, initial, commits, runs, store, keying>>

\* no path is probed, no text is split
NoProbe == [st |-> "none"]
NoSplit == [st |-> "none"]

EmptyTree == [p \in PathIds |-> 0]
\* the trees main can have before the first push
Trees == [PathIds -> {0, 1}]
\* the tree of main at commit k (0: before the first push)
TreeAt(k) == IF k = 0 THEN initial ELSE commits[k]
head == Len(commits)
main == TreeAt(head)

Jobs == {"modified", "deleted"}

(***************************************************************************)
(* A push and its diff, as git diff --name-status reports it: one entry    *)
(* per changed file, A(dded), M(odified), D(eleted) or R(enamed, old ->    *)
(* path).  A renamed file is listed under its new name only.               *)
(***************************************************************************)
\* the files the filter of on.push.paths matches
PushPathsFiles ==
    {p \in PathIds : GlobMatch(NormalisePattern(PushPathsPattern), AllPaths[p])}
MatchesPushPaths(p) == p \in PushPathsFiles

Entry(status, path, old) == [status |-> status, path |-> path, old |-> old]

\* the entries a push can make on tree t (renames are those of one numbered
\* notebook to the name of another)
EntriesOn(t) ==
    {Entry("A", p, 0) : p \in {q \in PathIds : t[q] = 0}}
    \cup {Entry(s, p, 0) : s \in {"M", "D"}, p \in {q \in PathIds : t[q] # 0}}
    \cup {Entry("R", p, o) :
            p \in {q \in PathIds : t[q] = 0 /\ MatchesPushPaths(q)},
            o \in {q \in PathIds : t[q] # 0 /\ MatchesPushPaths(q)}}

Touched(e) == IF e.status = "R" THEN {e.path, e.old} ELSE {e.path}

RECURSIVE SubsetsUpTo(_, _)
SubsetsUpTo(S, k) ==
    IF k = 0 THEN {{}}
    ELSE LET prev == SubsetsUpTo(S, k - 1)
         IN  prev \cup {d \cup {e} : d \in prev, e \in S}

\* the diffs a push can have on tree t: at least one entry, no file in two
Diffs(t) ==
    {d \in SubsetsUpTo(EntriesOn(t), MaxTouched) :
        /\ d # {}
        /\ \A e1, e2 \in d : e1 # e2 => Touched(e1) \cap Touched(e2) = {}}

\* the tree after a push numbered sha with diff d
Apply(t, d, sha) ==
    [p \in PathIds |->
        IF \E e \in d : e.path = p /\ e.status \in {"A", "M", "R"} THEN sha + 1
        ELSE IF \E e \in d : (e.path = p /\ e.status = "D")
                              \/ (e.old = p /\ e.status = "R") THEN 0
        ELSE t[p]]

\* on.push.paths: the workflow runs when a changed file matches the filter
Triggers(d) == \E e \in d : \E p \in Touched(e) : MatchesPushPaths(p)

\* the branches pushes are made to
Branches == {"main", "dev"}

\* a branch filter that lets every branch through, as if on.push.branches
\* were not set
OnPushAnyBranch == Branches
\* on.push.branches
OnPushBranches == {"main"}

\* on.push: the event starts the workflow when the branch pushed to and the
\* files changed pass both filters
Triggered(b, d) == b \in OnPushBranches /\ Triggers(d)

(***************************************************************************)
(* get-tutorials: "Get changed files" and "Create matrixes".               *)
(***************************************************************************)
\* the filter of output all_modified_files, read in place of all_changed_files
AllModifiedFilter == {"A", "C", "M", "R", "D"}

\* the diff filters of the two outputs the workflow reads
AllChangedFilter == {"A", "C", "M", "R"}
DeletedFilter == {"D"}

\* the files the pattern of the "files" input matches
FilesInputFiles ==
    {p \in PathIds : GlobMatch(NormalisePattern(FilesPattern), AllPaths[p])}
MatchesFiles(p) == p \in FilesInputFiles

\* the names of the diff's entries with a status in filter that match the
\* files pattern, in git's order
DiffNames(d, filter) ==
    SelectSeq(AllPaths,
              LAMBDA name : \E e \in d : /\ e.status \in filter
                                         /\ AllPaths[e.path] = name
                                         /\ MatchesFiles(e.path))

BoolString(b) == IF b THEN "true" ELSE "false"

\* the outputs of step "files"
ChangedFiles(d) ==
    [all_changed_files |-> DiffNames(d, AllChangedFilter),
     deleted_files     |-> DiffNames(d, DeletedFilter),
     any_changed       |-> BoolString(DiffNames(d, AllChangedFilter) # <<>>),
     any_deleted       |-> BoolString(DiffNames(d, DeletedFilter) # <<>>)]

\* the outputs of step "create_matrix"
\* the modified matrix built from the output the deleted matrix is built from
ModifiedMatrixFromDeleted(files) == [file |-> files.deleted_files]
ModifiedMatrix(files) == [file |-> files.all_changed_files]
\* the deleted matrix built from the output the modified matrix is built from
DeletedMatrixFromChanged(files) == [file |-> files.all_changed_files]
DeletedMatrix(files) == [file |-> files.deleted_files]

\* the outputs of the job
GetTutorialsOutputs(d) ==
    LET files == ChangedFiles(d)
    IN  [modifiedMatrix |-> ModifiedMatrix(files),
         deletedMatrix  |-> DeletedMatrix(files),
         anyChanged     |-> files.any_changed,
         anyDeleted     |-> files.any_deleted]

NoOutputs ==
    [modifiedMatrix |-> [file |-> <<>>], deletedMatrix |-> [file |-> <<>>],
     anyChanged |-> "", anyDeleted |-> ""]

(***************************************************************************)
(* The matrix jobs.                                                        *)
(***************************************************************************)
\* an expression used as a condition: only the empty string is false among
\* strings, and a job output is a string
Truthy(s) == s # ""

\* if: of job j
JobIf(j, outputs) ==
    IF j = "modified" THEN Truthy(outputs.anyChanged)
    ELSE Truthy(outputs.anyDeleted)

\* strategy.matrix of job j
JobMatrix(j, outputs) ==
    IF j = "modified" THEN outputs.modifiedMatrix ELSE outputs.deletedMatrix

NewUnit == [st |-> "queued", file |-> <<>>, metadata |-> <<>>]
NewJob == [status |-> "pending", units |-> <<>>]

\* texts: whether the pushed commit holds, for each numbered notebook in it,
\* its text file text/<stem>.txt
NewRun(b, d, sha, texts) ==
    [triggered |-> Triggered(b, d),
     branch    |-> b,
     texts     |-> texts,
     sha       |-> sha,
     diff      |-> d,
     detect    |-> IF Triggered(b, d) THEN "queued" ELSE "none",
     outputs   |-> NoOutputs,
     jobs      |-> [j \in Jobs |-> NewJob],
     requests  |-> <<>>]

\* the workflow in a repository that holds no file yet
Init ==
    /\ probe = NoProbe
    /\ split = NoSplit
    /\ initial = EmptyTree
    /\ commits = <<>>
    /\ runs = <<>>
    /\ store = <<>>
    /\ keying \in {"name", "path"}

\* the diffs of the pushes still to come
PushDiffs == IF head < MaxPushes THEN Diffs(main) ELSE {}

\* a push to branch b of a commit whose diff against main is d: a push to
\* main moves main, a push to another branch leaves it as it is
Push(b, d, texts) ==
    /\ head < MaxPushes
    /\ commits' = Append(commits, IF b = "main" THEN Apply(main, d, head + 1)
                                                ELSE main)
    /\ runs' = Append(runs, NewRun(b, d, head + 1, texts))
    /\ UNCHANGED <<probe, split, initial, store, keying>>

(***************************************************************************)
(* get-tutorials.                                                          *)
(***************************************************************************)
\* the job succeeds and publishes its outputs
GetTutorials(r) ==
    /\ runs[r].detect = "queued"
    /\ runs' = [runs EXCEPT ![r].detect = "success",
                            ![r].outputs = GetTutorialsOutputs(runs[r].diff)]
    /\ UNCHANGED <<probe, split, initial, commits, store, keying>>

\* the job fails (checkout or a step of it): the jobs that need it are skipped
GetTutorialsFails(r) ==
    /\ runs[r].detect = "queued"
    /\ runs' = [runs EXCEPT ![r].detect = "failure",
                            ![r].jobs = [j \in Jobs |->
                                [status |-> "skipped", units |-> <<>>]]]
    /\ UNCHANGED <<probe, split, initial, commits, store, keying>>

(***************************************************************************)
(* modified and deleted: needs, if, strategy.matrix.                       *)
(***************************************************************************)
\* the job after its if: and its matrix are evaluated: skipped when the
\* condition is false; failed when a vector of the matrix is empty ("Matrix
\* vector 'file' does not contain any values"); else one queued unit per file
StartedJob(j, outputs) ==
    IF ~JobIf(j, outputs) THEN [status |-> "skipped", units |-> <<>>]
    ELSE IF JobMatrix(j, outputs).file = <<>>
         THEN [status |-> "failure", units |-> <<>>]
    ELSE [status |-> "running",
          units  |-> [i \in 1..Len(JobMatrix(j, outputs).file) |-> NewUnit]]

\* a matrix job without needs: it starts with its run, on the lists of the
\* push, whatever get-tutorials does
StartJobWithoutNeeds(r, j) ==
    /\ runs[r].triggered
    /\ runs[r].jobs[j].status = "pending"
    /\ runs' = [runs EXCEPT
                    ![r].jobs[j] = StartedJob(j, GetTutorialsOutputs(runs[r].diff))]
    /\ UNCHANGED <<probe, split, initial, commits, store, keying>>
\* needs: get-tutorials, then if: and strategy.matrix on its outputs
StartJob(r, j) ==
    /\ runs[r].detect = "success"
    /\ runs[r].jobs[j].status = "pending"
    /\ runs' = [runs EXCEPT ![r].jobs[j] = StartedJob(j, runs[r].outputs)]
    /\ UNCHANGED <<probe, split, initial, commits, store, keying>>

\* matrix.file of unit i of job j
MatrixFile(r, j, i) == JobMatrix(j, runs[r].outputs).file[i]

Units(r, j) == 1..Len(runs[r].jobs[j].units)
UnitSt(r, j, i) == runs[r].jobs[j].units[i].st

(***************************************************************************)
(* The steps of a unit before its request.                                 *)
(***************************************************************************)
\* python scripts/generate_txt.py --print-metadata --notebooks <file>, run
\* in the checkout of the pushed commit: the metadata of that notebook
Metadata(file, sha) == <<PathId(file), TreeAt(sha)[PathId(file)]>>

\* the modified job's script with the suffix operand of basename left out:
\* FILE="$(basename <file>).txt"
UploadFileKeepsExtension(file) ==
    LET b == BasenameCommand(file)
    IN  [ok   |-> b.ok,
         file |-> IF b.ok THEN TextDir \o LastComponent(file) \o TxtSuffix
                          ELSE <<>>]
\* actions/checkout@v3 in the run of push r: the files of the pushed commit
Checkout(r) ==
    LET present == {p \in PathIds : TreeAt(runs[r].sha)[p] # 0}
    IN  {AllPaths[p] : p \in present}
        \cup (IF runs[r].texts
              THEN {TextDir \o Basename(AllPaths[p], IpynbSuffix) \o TxtSuffix :
                        p \in present \cap PushPathsFiles}
              ELSE {})

\* the files of a workspace after python scripts/generate_txt.py
\* --print-metadata --notebooks <file>: in this mode the script only prints
\* the metadata and writes no file
GenerateTxt(file, workspace) == workspace

\* FILE="$(basename <file> .ipynb).txt"; echo "file=text/$FILE"
UploadFile(file) ==
    LET b == BasenameCommand(file)
    IN  [ok   |-> b.ok,
         file |-> IF b.ok THEN TextDir \o b.out \o TxtSuffix ELSE <<>>]

\* the deleted job's script with the file written as the modified job's
\* script writes it: echo "file=text/$FILE"
DeleteFileUnderText(file) ==
    LET b == BasenameCommand(file)
    IN  [ok   |-> b.ok,
         file |-> IF b.ok THEN TextDir \o b.out \o TxtSuffix ELSE <<>>]
\* FILE="$(basename <file> .ipynb).txt"; echo "file=$FILE"
DeleteFile(file) ==
    LET b == BasenameCommand(file)
    IN  [ok   |-> b.ok,
         file |-> IF b.ok THEN b.out \o TxtSuffix ELSE <<>>]

\* the script with --notebooks left out of the metadata command: the
\* metadata printed is that of the first notebook of the commit
FileGeneratorFirstNotebook(file, sha) ==
    LET u == UploadFile(file)
        first == CHOOSE p \in PathIds :
                    /\ TreeAt(sha)[p] # 0
                    /\ \A q \in PathIds : TreeAt(sha)[q] # 0 => p <= q
    IN  [ok       |-> u.ok,
         file     |-> u.file,
         metadata |-> IF u.ok THEN Metadata(AllPaths[first], sha) ELSE <<>>]
\* modified: "Generate file to upload" (after Checkout of the pushed commit)
FileGenerator(file, sha) ==
    LET u == UploadFile(file)
    IN  [ok       |-> u.ok,
         file     |-> u.file,
         metadata |-> IF u.ok THEN Metadata(file, sha) ELSE <<>>]

\* deleted: "Get file with correct extension"
ExtensionChanger(file, sha) ==
    LET x == DeleteFile(file)
    IN  [ok       |-> x.ok,
         file     |-> x.file,
         metadata |-> <<>>]

UnitOutputs(j, file, sha) ==
    IF j = "modified" THEN FileGenerator(file, sha) ELSE ExtensionChanger(file, sha)

\* a queued unit runs its steps up to the request; the unit fails when the
\* script does (bash -e)
StartUnit(r, j, i) ==
    /\ runs[r].jobs[j].status = "running"
    /\ i \in Units(r, j)
    /\ UnitSt(r, j, i) = "queued"
    /\ \A k \in Units(r, j) : UnitSt(r, j, k) # "failure"
    /\ LET out == UnitOutputs(j, MatrixFile(r, j, i), runs[r].sha)
       IN  runs' = [runs EXCEPT ![r].jobs[j].units[i] =
                        [st       |-> IF out.ok THEN "in_progress" ELSE "failure",
                         file     |-> out.file,
                         metadata |-> out.metadata]]
    /\ UNCHANGED <<probe, split, initial, commits, store, keying>>

(***************************************************************************)
(* The requests.                                                           *)
(***************************************************************************)
\* the upload request with write-mode: KEEP in place of OVERWRITE
RequestKeep(j, unit) ==
    IF j = "modified"
    THEN [action |-> "upload", file |-> unit.file, writeMode |-> "KEEP",
          metadata |-> unit.metadata]
    ELSE [action |-> "delete", file |-> unit.file, writeMode |-> "",
          metadata |-> <<>>]
\* with: of "Upload tutorial to deepset Cloud" / "Delete file from deepset Cloud"
Request(j, unit) ==
    IF j = "modified"
    THEN [action |-> "upload", file |-> unit.file, writeMode |-> "OVERWRITE",
          metadata |-> unit.metadata]
    ELSE [action |-> "delete", file |-> unit.file, writeMode |-> "",
          metadata |-> <<>>]

\* the key of the store a request is about
StoreKey(file) == IF keying = "name" THEN LastComponent(file) ELSE file

\* store s after a request that succeeded.  An upload with write mode
\* OVERWRITE replaces what the store holds under the key, with another write
\* mode (KEEP) the file is added to the copies under the key; a delete
\* removes what the store holds under the key
ServedOn(s, req) ==
    LET key == StoreKey(req.file)
        old == IF key \in DOMAIN s THEN s[key] ELSE <<>>
    IN  IF req.action = "upload"
        THEN [k \in DOMAIN s \cup {key} |->
                 IF k # key THEN s[k]
                 ELSE IF req.writeMode = "OVERWRITE" THEN <<req.metadata>>
                 ELSE Append(old, req.metadata)]
        ELSE [k \in DOMAIN s \ {key} |-> s[k]]

\* the store after a request that succeeded
Served(req) == ServedOn(store, req)

\* the files in the workspace of unit i of job j when it issues its request
\* (the deleted job checks nothing out)
Workspace(r, j, i) ==
    IF j = "modified" THEN GenerateTxt(MatrixFile(r, j, i), Checkout(r)) ELSE {}

\* what the request step of a unit adds to the log of its run: its request,
\* with the matrix.file of the unit that issued it
Issued(j, unit, notebook) ==
    <<[notebook |-> notebook, req |-> Request(j, unit)]>>

\* the request step with a retry: after a request that failed the unit is
\* still in progress and issues the request again
IssueRequestWithRetry(r, j, i, ok) ==
    /\ i \in Units(r, j)
    /\ UnitSt(r, j, i) = "in_progress"
    /\ (ok /\ j = "modified") =>
            runs[r].jobs[j].units[i].file \in Workspace(r, j, i)
    /\ LET unit == runs[r].jobs[j].units[i]
       IN  /\ runs' = [runs EXCEPT
                        ![r].jobs[j].units[i].st =
                            IF ok THEN "success" ELSE "in_progress",
                        ![r].requests = runs[r].requests
                                        \o Issued(j, unit, MatrixFile(r, j, i))]
           /\ store' = IF ok THEN Served(Request(j, unit)) ELSE store
    /\ UNCHANGED <<probe, split, initial, commits, keying>>
\* the request step of a unit: the request is issued and succeeds or fails;
\* an upload of a file that is not in the workspace fails
IssueRequest(r, j, i, ok) ==
    /\ i \in Units(r, j)
    /\ UnitSt(r, j, i) = "in_progress"
    /\ (ok /\ j = "modified") =>
            runs[r].jobs[j].units[i].file \in Workspace(r, j, i)
    /\ LET unit == runs[r].jobs[j].units[i]
       IN  /\ runs' = [runs EXCEPT
                        ![r].jobs[j].units[i].st = IF ok THEN "success" ELSE "failure",
                        ![r].requests = runs[r].requests
                                        \o Issued(j, unit, MatrixFile(r, j, i))]
           /\ store' = IF ok THEN Served(Request(j, unit)) ELSE store
    /\ UNCHANGED <<probe, split, initial, commits, keying>>

\* strategy.fail-fast is not set and defaults to true: once a unit of a
\* matrix job has failed, its queued and in-progress units are cancelled
FailFast == TRUE

\* fail-fast across the jobs of a run: a failed unit of either matrix job
\* cancels the units of both
CancelUnitAcrossJobs(r, j, i) ==
    /\ FailFast
    /\ i \in Units(r, j)
    /\ UnitSt(r, j, i) \in {"queued", "in_progress"}
    /\ \E j2 \in Jobs : \E k \in Units(r, j2) : UnitSt(r, j2, k) = "failure"
    /\ runs' = [runs EXCEPT ![r].jobs[j].units[i].st = "cancelled"]
    /\ UNCHANGED <<probe, split, initial, commits, store, keying>>
\* fail-fast within the matrix of one job
CancelUnit(r, j, i) ==
    /\ FailFast
    /\ i \in Units(r, j)
    /\ UnitSt(r, j, i) \in {"queued", "in_progress"}
    /\ \E k \in Units(r, j) : UnitSt(r, j, k) = "failure"
    /\ runs' = [runs EXCEPT ![r].jobs[j].units[i].st = "cancelled"]
    /\ UNCHANGED <<probe, split, initial, commits, store, keying>>

MaxUnits == Len(AllPaths)

Next ==
    \/ \E b \in Branches, d \in PushDiffs, texts \in BOOLEAN : Push(b, d, texts)
    \/ \E r \in 1..Len(runs) : GetTutorials(r)
    \/ \E r \in 1..Len(runs) : GetTutorialsFails(r)
    \/ \E r \in 1..Len(runs), j \in Jobs : StartJob(r, j)
    \/ \E r \in 1..Len(runs), j \in Jobs, i \in 1..MaxUnits : StartUnit(r, j, i)
    \/ \E r \in 1..Len(runs), j \in Jobs, i \in 1..MaxUnits, ok \in BOOLEAN :
            IssueRequest(r, j, i, ok)
    \/ \E r \in 1..Len(runs), j \in Jobs, i \in 1..MaxUnits : CancelUnit(r, j, i)

Spec == Init /\ [][Next]_vars

(***************************************************************************)
(* One push and its run, on any tree of main.                              *)
(***************************************************************************)
InitRun ==
    /\ probe = NoProbe
    /\ split = NoSplit
    /\ initial \in Trees
    /\ commits = <<>>
    /\ runs = <<>>
    /\ store = <<>>
    /\ keying \in {"name", "path"}

\* the first push
FirstPush(b, d, texts) == commits = <<>> /\ Push(b, d, texts)

NextRun ==
    \/ \E b \in Branches, d \in PushDiffs, texts \in BOOLEAN :
            FirstPush(b, d, texts)
    \/ \E r \in 1..Len(runs) : GetTutorials(r)
    \/ \E r \in 1..Len(runs) : GetTutorialsFails(r)
    \/ \E r \in 1..Len(runs), j \in Jobs : StartJob(r, j)
    \/ \E r \in 1..Len(runs), j \in Jobs, i \in 1..MaxUnits : StartUnit(r, j, i)
    \/ \E r \in 1..Len(runs), j \in Jobs, i \in 1..MaxUnits, ok \in BOOLEAN :
            IssueRequest(r, j, i, ok)
    \/ \E r \in 1..Len(runs), j \in Jobs, i \in 1..MaxUnits : CancelUnit(r, j, i)

SpecRun == InitRun /\ [][NextRun]_vars

(***************************************************************************)
(* The file name derivations of the two kinds of unit, applied to one path *)
(* the files pattern matches.  The paths are a directory, up to MaxParts    *)
(* parts (a digit, a letter, a space, ".", "/", ".ipynb" or ".txt") and an *)
(* extension.                                                              *)
(***************************************************************************)
MaxParts == 3

ProbeDirs == {<<>>, TutorialsDir, TutorialsDir \o <<"s","u","b","/">>}
ProbeParts ==
    {<<"1">>, <<"a">>, <<" ">>, <<".">>, <<"/">>, IpynbSuffix, TxtSuffix}
ProbeExtensions == {<<>>, IpynbSuffix, TxtSuffix}

RECURSIVE ProbeNames(_)
ProbeNames(k) ==
    IF k = 0 THEN {<<>>}
    ELSE LET prev == ProbeNames(k - 1)
         IN  prev \cup {n \o part : n \in prev, part \in ProbeParts}

ProbePaths ==
    {d \o n \o x : d \in ProbeDirs, n \in ProbeNames(MaxParts),
                   x \in ProbeExtensions} \ {<<>>}

InitNames ==
    /\ probe \in {[st |-> "path", path |-> path] : path \in ProbePaths}
    /\ split = NoSplit
    /\ initial = EmptyTree
    /\ commits = <<>>
    /\ runs = <<>>
    /\ store = <<>>
    /\ keying = "name"

\* the path is one the files pattern lets into the lists: the scripts of the
\* two kinds of unit run on it
DeriveNames ==
    /\ probe.st = "path"
    /\ GlobMatch(NormalisePattern(FilesPattern), probe.path)
    /\ probe' = [st     |-> "derived",
                 path   |-> probe.path,
                 upload |-> UploadFile(probe.path),
                 delete |-> DeleteFile(probe.path)]
    /\ UNCHANGED <<split, initial, commits, runs, store, keying>>

NextNames == DeriveNames

SpecNames == InitNames /\ [][NextNames]_vars

(***************************************************************************)
(* Tutorial 8 (Preprocessing), "Sliding window approach":                  *)
(*   PreProcessor(split_overlap=3, split_length=10,                        *)
(*                split_respect_sentence_boundary=False).process([doc_txt])*)
(* The text is split by word; the words are windowed with windows of       *)
(* split_length words that start split_length - split_overlap words apart, *)
(* the last window holding the words that are left; each window is one     *)
(* document.  A word is named by its position in the text, from 0.         *)
(***************************************************************************)
MaxWords == 30

SplitLength == 10
SplitOverlap == 3

\* windows that start where the window before ends, split_overlap unused
SplitStepNoOverlap == SplitLength
\* the distance of the starts of two consecutive windows
SplitStep == SplitLength - SplitOverlap

\* the words of a text of n words
Words(n) == [i \in 1..n |-> i - 1]

\* words[from:to], positions counted from 0 and to excluded
Slice(words, from, to) ==
    SubSeq(words, from + 1, IF to < Len(words) THEN to ELSE Len(words))

InitSplit ==
    /\ split \in {[st |-> "splitting", words |-> Words(n), start |-> 0,
                    docs |-> <<>>] : n \in 0..MaxWords}
    /\ probe = NoProbe
    /\ initial = EmptyTree
    /\ commits = <<>>
    /\ runs = <<>>
    /\ store = <<>>
    /\ keying = "name"

\* a window is left to emit: the first one of a text that has words, a later
\* one when words are left after the end of the window before it
WindowLeft ==
    IF split.start = 0 THEN Len(split.words) > 0
    ELSE split.start - SplitStep + SplitLength < Len(split.words)

\* the next window becomes a document
SplitWindow ==
    /\ split.st = "splitting"
    /\ WindowLeft
    /\ split' = [split EXCEPT
                    !.docs = Append(split.docs,
                                    Slice(split.words, split.start,
                                          split.start + SplitLength)),
                    !.start = split.start + SplitStep]
    /\ UNCHANGED <<probe, initial, commits, runs, store, keying>>

\* process() returns the documents
SplitDone ==
    /\ split.st = "splitting"
    /\ ~WindowLeft
    /\ split' = [split EXCEPT !.st = "done"]
    /\ UNCHANGED <<probe, initial, commits, runs, store, keying>>

NextSplit == SplitWindow \/ SplitDone

SpecSplit == InitSplit /\ [][NextSplit]_vars

(***************************************************************************)
(* Vocabulary of the properties.                                           *)
(***************************************************************************)
\* a numbered notebook: tutorials/<name>.ipynb, <name> starting with a digit
\* and holding no /
IsNumberedNotebook(s) ==
    /\ Len(s) >= Len(TutorialsDir) + 1 + Len(IpynbSuffix)
    /\ SubSeq(s, 1, Len(TutorialsDir)) = TutorialsDir
    /\ s[Len(TutorialsDir) + 1] \in Digits
    /\ SubSeq(s, Len(s) - Len(IpynbSuffix) + 1, Len(s)) = IpynbSuffix
    /\ \A i \in (Len(TutorialsDir) + 1)..Len(s) : s[i] # "/"

NumberedNotebooks == {p \in PathIds : IsNumberedNotebook(AllPaths[p])}

\* the filename stem of a numbered notebook: directory and .ipynb removed
Stem(s) == SubSeq(s, Len(TutorialsDir) + 1, Len(s) - Len(IpynbSuffix))

RunIds == 1..Len(runs)

\* the numbered notebooks a push added or modified, and those it deleted
AddedOrModified(r) ==
    {e.path : e \in {x \in runs[r].diff : x.status \in {"A", "M"}}}
        \cap NumberedNotebooks
Deleted(r) ==
    {e.path : e \in {x \in runs[r].diff : x.status = "D"}} \cap NumberedNotebooks

\* the push of run r touched no numbered notebook
TouchesNone(r) ==
    \A e \in runs[r].diff : Touched(e) \cap NumberedNotebooks = {}

\* the positions in the log of run r of the requests of one kind
Requests(r, action) ==
    {n \in 1..Len(runs[r].requests) : runs[r].requests[n].req.action = action}
\* ... and of those issued for notebook p
RequestsFor(r, action, p) ==
    {n \in Requests(r, action) : runs[r].requests[n].notebook = AllPaths[p]}

Terminal == {"success", "failure", "cancelled"}

\* the run of push r was triggered and nothing of it is left to do
RunComplete(r) ==
    /\ runs[r].triggered
    /\ runs[r].detect \in {"success", "failure"}
    /\ \A j \in Jobs :
        /\ runs[r].jobs[j].status # "pending"
        /\ \A i \in Units(r, j) : UnitSt(r, j, i) \in Terminal

\* the detection job succeeded and the run is complete
DetectedAndComplete(r) == runs[r].detect = "success" /\ RunComplete(r)

\* unit i of job j failed in its request step (it had produced its file name)
FailedAtRequest(r, j, i) ==
    UnitSt(r, j, i) = "failure" /\ runs[r].jobs[j].units[i].file # <<>>

(***************************************************************************)
(* Pushes one after the other: a push is made only when the runs of the    *)
(* pushes before it are complete.                                          *)
(***************************************************************************)
PushAfterRuns(b, d, texts) ==
    /\ \A r \in RunIds : runs[r].triggered => RunComplete(r)
    /\ Push(b, d, texts)

NextSeq ==
    \/ \E b \in Branches, d \in PushDiffs, texts \in BOOLEAN :
            PushAfterRuns(b, d, texts)
    \/ \E r \in 1..Len(runs) : GetTutorials(r)
    \/ \E r \in 1..Len(runs) : GetTutorialsFails(r)
    \/ \E r \in 1..Len(runs), j \in Jobs : StartJob(r, j)
    \/ \E r \in 1..Len(runs), j \in Jobs, i \in 1..MaxUnits : StartUnit(r, j, i)
    \/ \E r \in 1..Len(runs), j \in Jobs, i \in 1..MaxUnits, ok \in BOOLEAN :
            IssueRequest(r, j, i, ok)
    \/ \E r \in 1..Len(runs), j \in Jobs, i \in 1..MaxUnits : CancelUnit(r, j, i)

SpecSeq == Init /\ [][NextSeq]_vars

(***************************************************************************)
(* C1.  In a complete run whose detection succeeded, every numbered        *)
(* notebook the push added or modified has exactly one upload request.     *)
(***************************************************************************)
C1_OneUploadPerModified ==
    \A r \in RunIds : DetectedAndComplete(r) =>
        \A p \in AddedOrModified(r) :
            Cardinality(RequestsFor(r, "upload", p)) = 1

(***************************************************************************)
(* C2.  In a complete run whose detection succeeded, every numbered        *)
(* notebook the push deleted has exactly one delete request.               *)
(***************************************************************************)
C2_OneDeletePerDeleted ==
    \A r \in RunIds : DetectedAndComplete(r) =>
        \A p \in Deleted(r) :
            Cardinality(RequestsFor(r, "delete", p)) = 1

(***************************************************************************)
(* C3.  A push that touches no numbered notebook has no unit in either     *)
(* matrix job and no request.                                              *)
(***************************************************************************)
C3_NoMatchNoFanOut ==
    \A r \in RunIds : TouchesNone(r) =>
        /\ \A j \in Jobs : runs[r].jobs[j].units = <<>>
        /\ runs[r].requests = <<>>

\* a push that touched only files that are no numbered notebooks was made
C3_Witness == \E r \in RunIds : TouchesNone(r)

(***************************************************************************)
(* C4.  A matrix job whose list is empty is skipped: it does not fail.     *)
(***************************************************************************)
C4_EmptyListJobSkipped ==
    \A r \in RunIds : \A j \in Jobs :
        ( /\ runs[r].detect = "success"
          /\ runs[r].jobs[j].status # "pending"
          /\ JobMatrix(j, runs[r].outputs).file = <<>> )
        => runs[r].jobs[j].status = "skipped"

(***************************************************************************)
(* C5.  A complete run (detection succeeded) of a push that only added or  *)
(* modified one numbered notebook tutorials/<stem>.ipynb has exactly one   *)
(* request: an upload of text/<stem>.txt.                                  *)
(***************************************************************************)
C5_SingleModifyOneUpload ==
    \A r \in RunIds : \A p \in NumberedNotebooks :
        ( /\ DetectedAndComplete(r)
          /\ \E st \in {"A", "M"} : runs[r].diff = {Entry(st, p, 0)} )
        => /\ Len(runs[r].requests) = 1
           /\ runs[r].requests[1].req.action = "upload"
           /\ runs[r].requests[1].req.file
                = TextDir \o Stem(AllPaths[p]) \o TxtSuffix

(***************************************************************************)
(* C6.  A complete run (detection succeeded) of a push that only deleted   *)
(* one numbered notebook tutorials/<stem>.ipynb has exactly one request:   *)
(* a delete of <stem>.txt.                                                 *)
(***************************************************************************)
C6_SingleDeleteOneDelete ==
    \A r \in RunIds : \A p \in NumberedNotebooks :
        ( /\ DetectedAndComplete(r)
          /\ runs[r].diff = {Entry("D", p, 0)} )
        => /\ Len(runs[r].requests) = 1
           /\ runs[r].requests[1].req.action = "delete"
           /\ runs[r].requests[1].req.file = Stem(AllPaths[p]) \o TxtSuffix

(***************************************************************************)
(* C8.  When the request of one unit fails, no other unit of the same      *)
(* matrix job is cancelled.                                                *)
(***************************************************************************)
C8_FailureStaysInUnit ==
    \A r \in RunIds : \A j \in Jobs : \A i, k \in Units(r, j) :
        (i # k /\ FailedAtRequest(r, j, k)) => UnitSt(r, j, i) # "cancelled"

(***************************************************************************)
(* C9.  The two lists the change detector produces are disjoint and hold   *)
(* no path twice.                                                          *)
(***************************************************************************)
NoDuplicates(list) ==
    \A a, b \in 1..Len(list) : a # b => list[a] # list[b]

Range(list) == {list[n] : n \in 1..Len(list)}

C9_ListsDisjoint ==
    \A r \in RunIds : runs[r].detect = "success" =>
        LET m == runs[r].outputs.modifiedMatrix.file
            d == runs[r].outputs.deletedMatrix.file
        IN  /\ Range(m) \cap Range(d) = {}
            /\ NoDuplicates(m)
            /\ NoDuplicates(d)

\* a detection that produced two lists, neither of them empty
C9_Witness ==
    \E r \in RunIds :
        /\ runs[r].detect = "success"
        /\ runs[r].outputs.modifiedMatrix.file # <<>>
        /\ runs[r].outputs.deletedMatrix.file # <<>>

(***************************************************************************)
(* C10.  No two requests of one run are for the same artifact name (the    *)
(* file name of the request, its directory removed), and the names the     *)
(* units derive for two different numbered notebooks differ.               *)
(***************************************************************************)
C10_DisjointArtifacts ==
    /\ \A r \in RunIds : \A a, b \in 1..Len(runs[r].requests) :
        a # b => LastComponent(runs[r].requests[a].req.file)
                    # LastComponent(runs[r].requests[b].req.file)
    /\ \A r \in RunIds : \A j1, j2 \in Jobs :
        \A i1 \in Units(r, j1), i2 \in Units(r, j2) :
            ( /\ <<j1, i1>> # <<j2, i2>>
              /\ runs[r].jobs[j1].units[i1].file # <<>>
              /\ runs[r].jobs[j2].units[i2].file # <<>> )
            => LastComponent(runs[r].jobs[j1].units[i1].file)
                 # LastComponent(runs[r].jobs[j2].units[i2].file)

\* a run in which an upload and a delete were both requested
C10_Witness ==
    \E r \in RunIds : Requests(r, "upload") # {} /\ Requests(r, "delete") # {}

(***************************************************************************)
(* C11.  The store never holds more than one copy under one key nor two    *)
(* keys for one file name, and once every triggered run is complete with   *)
(* all its units successful, what the store holds for a numbered notebook  *)
(* that is on main is the content the most recent push gave it.            *)
(***************************************************************************)
\* every triggered run is complete, its detection and all its units successful
AllRunsSucceeded ==
    \A r \in RunIds : runs[r].triggered =>
        /\ DetectedAndComplete(r)
        /\ \A j \in Jobs : \A i \in Units(r, j) : UnitSt(r, j, i) = "success"

C11_LatestContentWins ==
    /\ \A k \in DOMAIN store : Len(store[k]) = 1
    /\ \A k1, k2 \in DOMAIN store :
            LastComponent(k1) = LastComponent(k2) => k1 = k2
    /\ AllRunsSucceeded =>
            \A k \in DOMAIN store : \A p \in NumberedNotebooks :
                (store[k][1][1] = p /\ main[p] # 0) => store[k][1][2] = main[p]

(***************************************************************************)
(* C12.  For every path the files pattern matches, both derivations        *)
(* produce a name; the name is the file name of the path with only its     *)
(* trailing .ipynb replaced by .txt, the same in both derivations; and     *)
(* replacing the trailing .txt of the name by .ipynb gives back the file   *)
(* name of the path.                                                       *)
(***************************************************************************)
\* the notebook file name an artifact name maps back to
NotebookName(txt) ==
    IF EndsWith(txt, TxtSuffix)
    THEN SubSeq(txt, 1, Len(txt) - Len(TxtSuffix)) \o IpynbSuffix
    ELSE txt

C12_NameDerivation ==
    probe.st = "derived" =>
        /\ probe.upload.ok
        /\ probe.delete.ok
        /\ probe.delete.file = Stem(probe.path) \o TxtSuffix
        /\ LastComponent(probe.upload.file) = probe.delete.file
        /\ NotebookName(probe.delete.file) = LastComponent(probe.path)

(***************************************************************************)
(* C13.  Every upload request is for the file text/<stem>.txt, <stem> the  *)
(* file name of the notebook its unit was given without its directory and  *)
(* its trailing .ipynb, and has write mode OVERWRITE.                      *)
(***************************************************************************)
C13_UploadRequest ==
    \A r \in RunIds : \A n \in Requests(r, "upload") :
        LET issued == runs[r].requests[n]
        IN  /\ IsNumberedNotebook(issued.notebook)
            /\ issued.req.file = TextDir \o Stem(issued.notebook) \o TxtSuffix
            /\ issued.req.writeMode = "OVERWRITE"

\* an upload request was issued and served
C13_Witness ==
    \E r \in RunIds : \E i \in Units(r, "modified") :
        /\ UnitSt(r, "modified", i) = "success"
        /\ Requests(r, "upload") # {}

(***************************************************************************)
(* C14.  Every delete request is for the file <stem>.txt, <stem> the file  *)
(* name of the deleted notebook without its directory and its trailing     *)
(* .ipynb, with no directory before it; and for the notebook of every unit *)
(* that derived a file, the file of the upload is text/ followed by the    *)
(* file of the delete.                                                     *)
(***************************************************************************)
C14_DeleteRequest ==
    /\ \A r \in RunIds : \A n \in Requests(r, "delete") :
        LET issued == runs[r].requests[n]
        IN  /\ IsNumberedNotebook(issued.notebook)
            /\ issued.req.file = Stem(issued.notebook) \o TxtSuffix
    /\ \A r \in RunIds :
        /\ \A i \in Units(r, "modified") :
            LET unit == runs[r].jobs["modified"].units[i]
            IN  unit.file # <<>> =>
                    unit.file = TextDir \o DeleteFile(MatrixFile(r, "modified", i)).file
        /\ \A i \in Units(r, "deleted") :
            LET unit == runs[r].jobs["deleted"].units[i]
            IN  unit.file # <<>> =>
                    TextDir \o unit.file = UploadFile(MatrixFile(r, "deleted", i)).file

\* a delete request was issued and served, in a run that also derived the
\* file of an upload
C14_Witness ==
    \E r \in RunIds :
        /\ \E i \in Units(r, "deleted") : UnitSt(r, "deleted", i) = "success"
        /\ Requests(r, "delete") # {}
        /\ \E i \in Units(r, "modified") :
                runs[r].jobs["modified"].units[i].file # <<>>

C17_OnlyMainNotebookPushes ==
    \A r \in RunIds :
        /\ runs[r].triggered => (runs[r].branch = "main" /\ ~TouchesNone(r))
        /\ (runs[r].branch # "main" \/ TouchesNone(r)) =>
                /\ ~runs[r].triggered
                /\ runs[r].detect = "none"
                /\ \A j \in Jobs : runs[r].jobs[j] = NewJob
                /\ runs[r].requests = <<>>

\* a push to another branch than main that touched a numbered notebook
C17_Witness ==
    \E r \in RunIds : runs[r].branch # "main" /\ ~TouchesNone(r)

C19_NothingBeforeDetection ==
    \A r \in RunIds :
        /\ runs[r].detect # "success" =>
                /\ \A j \in Jobs : runs[r].jobs[j].units = <<>>
                /\ \A j \in Jobs : runs[r].jobs[j].status \in {"pending", "skipped"}
                /\ runs[r].requests = <<>>
        /\ (\E j \in Jobs : runs[r].jobs[j].status \notin {"pending", "skipped"}) =>
                runs[r].outputs = GetTutorialsOutputs(runs[r].diff)
        /\ runs[r].detect = "failure" =>
                \A j \in Jobs : runs[r].jobs[j].status = "skipped"

\* get-tutorials failed in the run of a push that touched a numbered notebook
C19_Witness ==
    \E r \in RunIds : runs[r].detect = "failure" /\ ~TouchesNone(r)

(***************************************************************************)
(* C20.  The two matrix jobs of a run do not depend on each other: a unit  *)
(* is cancelled only when a unit of its own job has failed; a unit fails   *)
(* only in its own script or in its own request; and a job fails without   *)
(* units only on its own empty list.                                       *)
(***************************************************************************)
C20_JobsIndependent ==
    \A r \in RunIds : \A j \in Jobs :
        /\ runs[r].jobs[j].status = "failure" =>
                JobMatrix(j, runs[r].outputs).file = <<>>
        /\ \A i \in Units(r, j) :
            /\ UnitSt(r, j, i) = "cancelled" =>
                    \E k \in Units(r, j) : UnitSt(r, j, k) = "failure"
            /\ UnitSt(r, j, i) = "failure" =>
                    \/ ~UnitOutputs(j, MatrixFile(r, j, i), runs[r].sha).ok
                    \/ \E n \in 1..Len(runs[r].requests) :
                            /\ runs[r].requests[n].notebook = MatrixFile(r, j, i)
                            /\ runs[r].requests[n].req
                                    = Request(j, runs[r].jobs[j].units[i])

\* the upload of a run failed and its delete, issued after it, succeeded
C20_Witness ==
    \E r \in RunIds : \E n, m \in 1..Len(runs[r].requests) :
        /\ n < m
        /\ runs[r].requests[n].req.action = "upload"
        /\ runs[r].requests[m].req.action = "delete"
        /\ \E i \in Units(r, "modified") : FailedAtRequest(r, "modified", i)
        /\ \E i \in Units(r, "deleted") : UnitSt(r, "deleted", i) = "success"

(***************************************************************************)
(* C21.  When a unit of the modified job has issued its upload request,    *)
(* the file the request names is in the workspace of the unit.             *)
(***************************************************************************)
C21_UploadedFileExists ==
    \A r \in RunIds : \A i \in Units(r, "modified") :
        (\E n \in Requests(r, "upload") :
            runs[r].requests[n].notebook = MatrixFile(r, "modified", i))
        => runs[r].jobs["modified"].units[i].file \in Workspace(r, "modified", i)

(***************************************************************************)
(* C22.  Every path in the modified list of a run, and so every path given *)
(* to a unit of the modified job, is a file of the commit the unit checks  *)
(* out, and the push of the run did not delete it.                         *)
(***************************************************************************)
C22_ModifiedPathsExist ==
    \A r \in RunIds :
        /\ \A name \in Range(runs[r].outputs.modifiedMatrix.file) :
            /\ name \in Checkout(r)
            /\ ~\E e \in runs[r].diff : e.status = "D" /\ AllPaths[e.path] = name
        /\ \A i \in Units(r, "modified") :
                MatrixFile(r, "modified", i) \in Workspace(r, "modified", i)

\* a unit of the modified job in the run of a push that also deleted a
\* numbered notebook
C22_Witness ==
    \E r \in RunIds : Units(r, "modified") # {} /\ Deleted(r) # {}

(***************************************************************************)
(* C23.  The metadata of every upload request is the metadata of the       *)
(* notebook its unit was given, in the commit of the run, and the file of  *)
(* the request is the file derived from that same notebook.                *)
(***************************************************************************)
C23_MetadataOfSameNotebook ==
    \A r \in RunIds : \A n \in Requests(r, "upload") :
        LET issued == runs[r].requests[n]
        IN  /\ issued.req.metadata = Metadata(issued.notebook, runs[r].sha)
            /\ issued.req.metadata[1] = PathId(issued.notebook)
            /\ issued.req.file = UploadFile(issued.notebook).file

\* a run issued the uploads of two notebooks
C23_Witness ==
    \E r \in RunIds : Cardinality(Requests(r, "upload")) >= 2

(***************************************************************************)
(* C24.  Only numbered notebooks directly under tutorials/ pass the files  *)
(* pattern and have file names derived for them; every entry of the two    *)
(* matrices of a run and every request is for a numbered notebook.         *)
(***************************************************************************)
C24_OnlyNumberedNotebooks ==
    /\ probe.st = "derived" => IsNumberedNotebook(probe.path)
    /\ \A r \in RunIds :
        /\ \A j \in Jobs : \A name \in Range(JobMatrix(j, runs[r].outputs).file) :
                IsNumberedNotebook(name)
        /\ \A n \in 1..Len(runs[r].requests) :
                IsNumberedNotebook(runs[r].requests[n].notebook)

\* file names were derived for a notebook whose name has a second extension
C24_Witness ==
    /\ probe.st = "derived"
    /\ probe.upload.ok
    /\ \E i \in 1..(Len(probe.path) - Len(IpynbSuffix)) : probe.path[i] = "."

(***************************************************************************)
(* C25.  A unit issues at most one request: none while it is queued or in  *)
(* progress or when it was cancelled or failed in its script, exactly one  *)
(* when it succeeded or failed in its request.                             *)
(***************************************************************************)
C25_AtMostOneRequest ==
    \A r \in RunIds : \A j \in Jobs : \A i \in Units(r, j) :
        LET issued == {n \in 1..Len(runs[r].requests) :
                        /\ runs[r].requests[n].notebook = MatrixFile(r, j, i)
                        /\ runs[r].requests[n].req.action
                                = Request(j, runs[r].jobs[j].units[i]).action}
        IN  Cardinality(issued) =
                IF UnitSt(r, j, i) = "success" \/ FailedAtRequest(r, j, i)
                THEN 1 ELSE 0

\* a run is complete in which the request of a unit failed
C25_Witness ==
    \E r \in RunIds :
        /\ RunComplete(r)
        /\ \E j \in Jobs : \E i \in Units(r, j) : FailedAtRequest(r, j, i)

(***************************************************************************)
(* C26.  With the pushes made one after the other and every triggered run  *)
(* complete with all its units successful, the artifacts in the store are  *)
(* those of the numbered notebooks on main: one <stem>.txt for each, and   *)
(* none for a notebook that is not on main.                                *)
(***************************************************************************)
C26_StoreMirrorsMain ==
    AllRunsSucceeded =>
        {LastComponent(k) : k \in DOMAIN store}
            = {Basename(AllPaths[p], IpynbSuffix) \o TxtSuffix :
                    p \in {q \in NumberedNotebooks : main[q] # 0}}

(***************************************************************************)
(* C27.  In a complete run (detection succeeded) of a push that renamed a  *)
(* numbered notebook tutorials/<old>.ipynb to tutorials/<new>.ipynb there  *)
(* is an upload request for text/<new>.txt and a delete request for        *)
(* <old>.txt.                                                              *)
(***************************************************************************)
C27_RenameUploadsAndDeletes ==
    \A r \in RunIds : DetectedAndComplete(r) =>
        \A e \in runs[r].diff : e.status = "R" =>
            /\ \E n \in RequestsFor(r, "upload", e.path) :
                    runs[r].requests[n].req.file
                        = TextDir \o Stem(AllPaths[e.path]) \o TxtSuffix
            /\ \E n \in RequestsFor(r, "delete", e.old) :
                    runs[r].requests[n].req.file
                        = Stem(AllPaths[e.old]) \o TxtSuffix

====
